---- MODULE Spec2Model ----
(***************************************************************************)
(* DocumentAnalyzer (src/main.py) and VectorIndex (src/embedding.py).      *)
(*                                                                         *)
(* Python values are modelled as follows.                                  *)
(*   str        a sequence of one-piece strings (characters, or tokens     *)
(*              where the code never looks inside them)                    *)
(*   list       a sequence                                                 *)
(*   dict       a function whose DOMAIN is the set of keys                 *)
(*   Optional   the empty sequence for None, <<v>> for a value v           *)
(* A file of the Output directory is named by the integer of its name      *)
(* (merged_image_<k>.jpg, page_<k>.jpg); sorted() of such names is the      *)
(* numeric order for every k the bounds below reach (k < 10).              *)
(***************************************************************************)
EXTENDS Integers, Sequences, FiniteSets, TLC

\* ---------------------------------------------------------------- bounds
MaxPages == 3
MaxPageHeight == 3
MaxPageWidth == 2
MaxCanvas == 4
MaxTokens == 3
MaxSummaryLen == 4
MaxTags == 11
MaxSqlPages == 2
MaxUnits == 3
MaxBatch == 2
MaxStore == 3
MaxSaves == 2

\* ------------------------------------------------------ program constants
MAX_HEIGHT == 20000
RETRIES == 3
\* RETRY_BASE_DELAY = 1.5 s, in tenths of a second
RETRY_BASE_DELAY == 15
MAX_NAMES == 10
DESC_MAX == 400
OCR_CAP == 4000

\* ------------------------------------------------------------- variables
VARIABLES
    pc,              \* position of the running call
    exc,             \* the exception that left the call, None if none
    images,          \* self.images: the page images, [width, height] each
    max_height,      \* self.max_height
    max_width,       \* local max_width of analyze_multi_page
    y,               \* local y: height pasted into the current canvas
    idx,             \* local idx: number of the block being filled
    pages_in_block,  \* local pages_in_block
    page_idx,        \* loop variable of `for page_idx, img in enumerate(...)`
    merged,          \* the current canvas: the pastes made on it
    files,           \* Output/*.jpg: name -> content written
    output_keys,     \* self.output[pdf]: keys in insertion order
    output,          \* self.output[pdf]: key -> entry
    json_s,          \* safe_json_loads: argument s
    json_extra,      \* safe_json_loads: argument extra
    json_ret,        \* safe_json_loads: returned value
    sql_summary,     \* _generate_sql_from_summary: argument summary_text
    sql_tags,        \* _generate_sql_from_summary: argument tags
    sql_pages,       \* _generate_sql_from_summary: argument pages
    sql_ret,         \* _generate_sql_from_summary: returned statements
    jpgs,            \* _process_output_images: sorted(Output/*.jpg)
    unit_i,          \* index in jpgs of the unit the loop is at
    status,          \* unit -> the stage of section 4.5 it has reached
    attempt,         \* call_ollama_with_retry: loop variable attempt
    chat_calls,      \* call_ollama_with_retry: ollama.chat calls made
    sleeps,          \* call_ollama_with_retry: time.sleep arguments so far
    call_result,     \* call_ollama_with_retry: how the last call ended
    content,         \* the text call_ollama_with_retry returned
    vec_index,       \* VectorIndex.index: None, or the rows of the store
    vec_meta,        \* VectorIndex.meta
    disk_index,      \* the file index.faiss: None, or the rows written
    disk_meta,       \* the file index_meta.json: None, or the list written
    save_count       \* completed calls of VectorIndex.save

compVars == <<images, max_height, max_width, y, idx, pages_in_block,
              page_idx, merged>>
outVars == <<files, output_keys, output>>
jsonVars == <<json_s, json_extra, json_ret>>
sqlVars == <<sql_summary, sql_tags, sql_pages, sql_ret>>
unitVars == <<jpgs, unit_i, status>>
callVars == <<attempt, chat_calls, sleeps, call_result, content>>
vecVars == <<vec_index, vec_meta, disk_index, disk_meta, save_count>>
pipeVars == <<unitVars, callVars, vecVars>>
vars == <<pc, exc, compVars, outVars, jsonVars, sqlVars, pipeVars>>

None == <<>>
Some(v) == <<v>>

Range(s) == {s[i] : i \in 1..Len(s)}

RECURSIVE MaxOf(_)
\* max(widths): the largest element of a non-empty set of integers
MaxOf(S) ==
    LET x == CHOOSE x \in S : TRUE
    IN  IF S = {x} THEN x
        ELSE LET m == MaxOf(S \ {x}) IN IF x > m THEN x ELSE m

\* the empty mapping {}
EmptyDict == [k \in {} |-> None]

\* d[k] = v on a mapping and its insertion-ordered key list
KeysPut(keys, k) == IF k \in Range(keys) THEN keys ELSE Append(keys, k)
DictPut(d, k, v) == [x \in DOMAIN d \cup {k} |-> IF x = k THEN v ELSE d[x]]

\* values of the variables a specification does not use
JsonIdle == json_s = <<>> /\ json_extra = EmptyDict /\ json_ret = None
SqlIdle ==
    sql_summary = <<>> /\ sql_tags = <<>> /\ sql_pages = <<>> /\ sql_ret = <<>>
CompIdle ==
    /\ images = <<>>
    /\ max_height = 0
    /\ max_width = 0
    /\ y = 0
    /\ idx = 0
    /\ pages_in_block = <<>>
    /\ page_idx = 0
    /\ merged = <<>>
UnitIdle == jpgs = <<>> /\ unit_i = 0 /\ status = EmptyDict
CallIdle ==
    /\ attempt = 0
    /\ chat_calls = 0
    /\ sleeps = <<>>
    /\ call_result = "none"
    /\ content = <<>>
VecIdle ==
    /\ vec_index = None
    /\ vec_meta = <<>>
    /\ disk_index = None
    /\ disk_meta = None
    /\ save_count = 0
PipeIdle == UnitIdle /\ CallIdle /\ VecIdle
OutIdle == files = EmptyDict /\ output_keys = <<>> /\ output = EmptyDict

\* ------------------------------------------- analyze_multi_page (mode 1)
PageImages == [width : 1..MaxPageWidth, height : 1..MaxPageHeight]

PageSeqs == UNION {[1..n -> PageImages] : n \in 0..MaxPages}

\* Image.new("RGB", (max_width, self.max_height), color="white")
NewCanvas == <<>>

\* merged.paste(img, (0, y))
Paste(canvas, p, at) == Append(canvas, [page |-> p, at |-> at])

\* the overflow test of line 189: y + h > self.max_height
OverflowsLT(yy, h, mh) == yy > mh
Overflows(yy, h, mh) == yy + h > mh

\* pages_in_block[:] as recorded for a sealed block
SealedPagesDropLast(pib) == SubSeq(pib, 1, Len(pib) - 1)
SealedPages(pib) == pib

\* the entry recorded when a block is sealed inside the loop (lines 192-195)
LoopEntry(pib) == [pages |-> SealedPages(pib), images |-> <<>>]

\* the entry recorded for the last block (lines 208-210): no "images" key
LastEntry(pib) == [pages |-> SealedPages(pib)]

InitCompositor ==
    /\ pc = "analyze_multi_page"
    /\ exc = None
    /\ images \in PageSeqs
    /\ max_height \in 1..MaxCanvas
    /\ max_width = 0
    /\ y = 0
    /\ idx = 0
    /\ pages_in_block = <<>>
    /\ page_idx = 0
    /\ merged = NewCanvas
    /\ files \in {EmptyDict, [k \in {1} |-> <<>>]}
    /\ output_keys = <<>>
    /\ output = EmptyDict
    /\ JsonIdle
    /\ SqlIdle
    /\ PipeIdle

\* lines 176-185: clear the output directory, take the widest page, set up
\* the first canvas.  max() of an empty list raises ValueError.
MultiPageBegin ==
    /\ pc = "analyze_multi_page"
    /\ files' = EmptyDict
    /\ IF images = <<>>
       THEN /\ pc' = "raised"
            /\ exc' = Some("ValueError")
            /\ UNCHANGED <<compVars, output_keys, output>>
       ELSE /\ max_width' = MaxOf({images[i].width : i \in 1..Len(images)})
            /\ y' = 0
            /\ idx' = 1
            /\ pages_in_block' = <<>>
            /\ merged' = NewCanvas
            /\ page_idx' = 1
            /\ pc' = "multi_loop"
            /\ UNCHANGED <<exc, images, max_height, output_keys, output>>
    /\ UNCHANGED <<jsonVars, sqlVars, pipeVars>>

\* lines 187-203: one iteration of the loop over the pages
MultiPageStep ==
    /\ pc = "multi_loop"
    /\ page_idx <= Len(images)
    /\ LET h == images[page_idx].height
           seal == Overflows(y, h, max_height) /\ pages_in_block # <<>>
           y0 == IF seal THEN 0 ELSE y
           pib0 == IF seal THEN <<>> ELSE pages_in_block
           canvas0 == IF seal THEN NewCanvas ELSE merged
       IN  /\ IF seal
              THEN /\ files' = DictPut(files, idx, merged)
                   /\ output_keys' = KeysPut(output_keys, idx)
                   /\ output' = DictPut(output, idx, LoopEntry(pages_in_block))
                   /\ idx' = idx + 1
              ELSE UNCHANGED <<files, output_keys, output, idx>>
           /\ merged' = Paste(canvas0, page_idx, y0)
           /\ y' = y0 + h
           /\ pages_in_block' = Append(pib0, page_idx)
    /\ page_idx' = page_idx + 1
    /\ UNCHANGED <<pc, exc, images, max_height, max_width>>
    /\ UNCHANGED <<jsonVars, sqlVars, pipeVars>>

\* lines 205-212: seal the last block and hand over to
\* _process_output_images
MultiPageEnd ==
    /\ pc = "multi_loop"
    /\ page_idx > Len(images)
    /\ IF pages_in_block # <<>>
       THEN /\ files' = DictPut(files, idx, merged)
            /\ output_keys' = KeysPut(output_keys, idx)
            /\ output' = DictPut(output, idx, LastEntry(pages_in_block))
       ELSE UNCHANGED <<files, output_keys, output>>
    /\ pc' = "process_output_images"
    /\ UNCHANGED <<exc, compVars>>
    /\ UNCHANGED <<jsonVars, sqlVars, pipeVars>>

NextCompositor == MultiPageBegin \/ MultiPageStep \/ MultiPageEnd

SpecCompositor == InitCompositor /\ [][NextCompositor]_vars

\* ------------------------------------------------------ compositor claims
RECURSIVE ConcatPages(_, _)
\* the page lists of the entries named by keys, concatenated in that order
ConcatPages(keys, out) ==
    IF keys = <<>> THEN <<>>
    ELSE out[Head(keys)].pages \o ConcatPages(Tail(keys), out)

RECURSIVE SumHeights(_, _)
SumHeights(pages, imgs) ==
    IF pages = <<>> THEN 0
    ELSE imgs[Head(pages)].height + SumHeights(Tail(pages), imgs)

\* the keys merged_image_1, merged_image_2, ... in creation order
CreationOrder == [k \in 1..Len(output_keys) |-> k]

\* C1: for a non-empty page sequence, when analyze_multi_page has sealed its
\* last block, the recorded page lists concatenated in block creation order
\* are exactly 1..n: each page once, in the original order.
C1_Coverage ==
    (pc = "process_output_images" /\ images # <<>>) =>
        /\ output_keys = CreationOrder
        /\ ConcatPages(output_keys, output) = [p \in 1..Len(images) |-> p]

C1_Witness ==
    /\ pc = "process_output_images"
    /\ Len(images) = 3
    /\ Len(output_keys) = 2
    /\ Len(output[1].pages) = 2

\* C2: every recorded block holding more than one page has a height sum of
\* at most max_height; when max_height is below every page height there is
\* exactly one block per page.
C2_HeightBound ==
    /\ \A k \in DOMAIN output :
          Len(output[k].pages) > 1 =>
              SumHeights(output[k].pages, images) <= max_height
    /\ (pc = "process_output_images"
          /\ \A i \in 1..Len(images) : images[i].height > max_height) =>
          /\ Len(output_keys) = Len(images)
          /\ \A k \in DOMAIN output : output[k].pages = <<k>>

C2_Witness ==
    /\ pc = "process_output_images"
    /\ \E k \in DOMAIN output :
          /\ Len(output[k].pages) > 1
          /\ SumHeights(output[k].pages, images) = max_height
    /\ \E k \in DOMAIN output :
          /\ Len(output[k].pages) = 1
          /\ SumHeights(output[k].pages, images) > max_height

\* C10: analyze_multi_page on an empty page sequence completes without
\* raising and records no block.
C10_EmptyInput ==
    (images = <<>> /\ pc # "analyze_multi_page") =>
        /\ exc = None
        /\ output = EmptyDict
        /\ files = EmptyDict

\* ------------------------------------------------------- safe_json_loads
\* A response text is a sequence of tokens.  The code looks at a text only
\* through strip(), the code-fence markers, json.loads and the search for
\* the span from the first "{" to the last "}", so a token is one of
\*   fencejson  the marker ```json          fence  the marker ```
\*   ws         white space                 prose  text without brace or fence
\*   list       the JSON text [1]           obj    a well-formed JSON object
\* and an obj token carries the mapping its text denotes.
Tok(t, v) == [t |-> t, v |-> v]
T_FENCEJSON == Tok("fencejson", EmptyDict)
T_FENCE == Tok("fence", EmptyDict)
T_WS == Tok("ws", EmptyDict)
T_PROSE == Tok("prose", EmptyDict)
T_LIST == Tok("list", EmptyDict)
T_OBJ(d) == Tok("obj", d)

\* str.strip() on a sequence whose white-space pieces are those of W
RECURSIVE LStrip(_, _)
LStrip(s, W) ==
    IF s # <<>> /\ Head(s) \in W THEN LStrip(Tail(s), W) ELSE s
RECURSIVE RStrip(_, _)
RStrip(s, W) ==
    IF s # <<>> /\ s[Len(s)] \in W
    THEN RStrip(SubSeq(s, 1, Len(s) - 1), W) ELSE s
Strip(s, W) == RStrip(LStrip(s, W), W)

WsTok == {T_WS}

\* cleaned.replace("```json", "```")
ReplaceFence(s) ==
    [i \in 1..Len(s) |-> IF s[i].t = "fencejson" THEN T_FENCE ELSE s[i]]

\* lines 58-60: the text json.loads is first tried on
Cleaned(s) ==
    LET c == Strip(ReplaceFence(Strip(s, WsTok)), WsTok)
    IN  IF c # <<>> /\ c[1].t = "fence" /\ c[Len(c)].t = "fence"
        THEN Strip(SubSeq(c, 2, Len(c) - 1), WsTok)
        ELSE c

\* json.loads(text): Some(value token), or None when it raises.  Leading
\* and trailing white space is accepted, anything else around the one
\* value is not.
JsonLoads(text) ==
    LET c == Strip(text, WsTok)
    IN  IF Len(c) = 1 /\ c[1].t \in {"obj", "list"} THEN Some(c[1]) ELSE None

\* a | b on two dicts: the right operand's value wins on a shared key
DictUnionLeftWins(a, b) ==
    [k \in DOMAIN a \cup DOMAIN b |-> IF k \in DOMAIN a THEN a[k] ELSE b[k]]
DictUnion(a, b) ==
    [k \in DOMAIN a \cup DOMAIN b |-> IF k \in DOMAIN b THEN b[k] ELSE a[k]]

\* json.loads(text) | extra: Some(dict), or None when either step raises
\* (list | dict is a TypeError)
LoadsMerged(text, extra) ==
    LET v == JsonLoads(text)
    IN  IF v # None /\ v[1].t = "obj"
        THEN Some(DictUnion(v[1].v, extra))
        ELSE None

\* re.search(r"\{.*\}", cleaned, flags=re.DOTALL): the span from the first
\* "{" to the last "}", None when there is none.  Only obj tokens hold
\* braces.
BraceSpan(c) ==
    LET I == {i \in 1..Len(c) : c[i].t = "obj"}
    IN  IF I = {} THEN None
        ELSE LET lo == CHOOSE i \in I : \A j \in I : i <= j
                 hi == CHOOSE i \in I : \A j \in I : i >= j
             IN  Some(SubSeq(c, lo, hi))

\* lines 57-70
safe_json_loads(s, extra) ==
    LET c == Cleaned(s)
        direct == LoadsMerged(c, extra)
        m == BraceSpan(c)
    IN  IF direct # None THEN direct
        ELSE IF m # None THEN LoadsMerged(m[1], extra)
        ELSE None

\* the objects a response may hold
SUMMARY_2 == <<"A", ".", " ", "A", "A">>
TAG_T == <<"t">>
TAG_U == <<"u", "u">>
ObjPlain == [riassunto |-> SUMMARY_2, tags |-> <<TAG_T, TAG_U>>]
ObjWithPages == [riassunto |-> SUMMARY_2, tags |-> <<TAG_T>>, pages |-> <<9>>]

JsonTokens ==
    {T_FENCEJSON, T_FENCE, T_WS, T_PROSE, T_LIST, T_OBJ(ObjPlain),
     T_OBJ(ObjWithPages)}

\* '```json\n{...}\n```', the fenced answer the prompt asks for
FencedAnswer(d) == <<T_FENCEJSON, T_WS, T_OBJ(d), T_WS, T_FENCE>>

JsonTexts ==
    UNION {[1..n -> JsonTokens] : n \in 0..MaxTokens}
        \cup {FencedAnswer(ObjPlain), FencedAnswer(ObjWithPages)}

\* the extra mappings: {"pages": pages} as _summarize_with_vl passes it
JsonExtras == {[pages |-> <<>>], [pages |-> <<1>>], [pages |-> <<1, 2>>]}

InitParser ==
    /\ pc = "safe_json_loads"
    /\ exc = None
    /\ json_s \in JsonTexts
    /\ json_extra \in JsonExtras
    /\ json_ret = None
    /\ CompIdle
    /\ OutIdle
    /\ SqlIdle
    /\ PipeIdle

SafeJsonLoadsCall ==
    /\ pc = "safe_json_loads"
    /\ json_ret' = safe_json_loads(json_s, json_extra)
    /\ pc' = "returned"
    /\ UNCHANGED <<exc, json_s, json_extra>>
    /\ UNCHANGED <<compVars, outVars, sqlVars, pipeVars>>

NextParser == SafeJsonLoadsCall

SpecParser == InitParser /\ [][NextParser]_vars

\* the JSON object safe_json_loads parsed from s, None when it parsed none
ParsedObject(s) ==
    LET c == Cleaned(s)
        v == JsonLoads(c)
        m == BraceSpan(c)
        w == IF m = None THEN None ELSE JsonLoads(m[1])
    IN  IF v # None /\ v[1].t = "obj" THEN Some(v[1].v)
        ELSE IF w # None /\ w[1].t = "obj" THEN Some(w[1].v)
        ELSE None

\* C5 as stated: on a key present in the parsed object and in extra the
\* result holds the parsed object's value; extra supplies only the keys the
\* parsed object lacks.
C5_ParsedWins ==
    (pc = "returned" /\ json_ret # None) =>
        LET parsed == ParsedObject(json_s)[1]
        IN  /\ \A k \in DOMAIN parsed : json_ret[1][k] = parsed[k]
            /\ \A k \in DOMAIN json_extra \ DOMAIN parsed :
                  json_ret[1][k] = json_extra[k]

\* C5 amended: safe_json_loads returns a mapping exactly when an object was
\* parsed; its keys are those of the parsed object and of extra; on every
\* key of extra it holds extra's value, and the parsed object supplies only
\* the keys extra lacks.
C5_ExtraWins ==
    pc = "returned" =>
        /\ (json_ret = None) <=> (ParsedObject(json_s) = None)
        /\ json_ret # None =>
              LET parsed == ParsedObject(json_s)[1]
                  ret == json_ret[1]
              IN  /\ DOMAIN ret = DOMAIN parsed \cup DOMAIN json_extra
                  /\ \A k \in DOMAIN json_extra : ret[k] = json_extra[k]
                  /\ \A k \in DOMAIN parsed \ DOMAIN json_extra :
                        ret[k] = parsed[k]

C5_Witness ==
    /\ pc = "returned"
    /\ json_s = <<T_PROSE, T_OBJ(ObjWithPages), T_PROSE>>
    /\ json_extra = [pages |-> <<1, 2>>]
    /\ json_ret = Some([riassunto |-> SUMMARY_2, tags |-> <<TAG_T>>,
                        pages |-> <<1, 2>>])

\* --------------------------------------------- _generate_sql_from_summary
\* A summary is a sequence of characters; "." stands for the terminators
\* [.!?] and " " for white space.
Terminators == {".", "!", "?"}
WsChars == {" ", "\n"}

Min(a, b) == IF a < b THEN a ELSE b

\* s[:n]
Take(s, n) == SubSeq(s, 1, Min(n, Len(s)))

\* the first index >= i of s that holds no white space, Len(s) + 1 if none
RECURSIVE SkipWs(_, _)
SkipWs(s, i) ==
    IF i <= Len(s) /\ s[i] \in WsChars THEN SkipWs(s, i + 1) ELSE i

\* re.split(r'[.!?]\s+', s), scanning from index i with the piece cur open
RECURSIVE SplitFrom(_, _, _)
SplitFrom(s, i, cur) ==
    IF i > Len(s) THEN <<cur>>
    ELSE IF s[i] \in Terminators /\ i < Len(s) /\ s[i + 1] \in WsChars
         THEN <<cur>> \o SplitFrom(s, SkipWs(s, i + 1), <<>>)
         ELSE SplitFrom(s, i + 1, Append(cur, s[i]))

ReSplit(s) == SplitFrom(s, 1, <<>>)

RECURSIVE StripNonEmpty(_)
\* [p.strip() for p in pieces if len(p.strip()) > 0]
StripNonEmpty(pieces) ==
    IF pieces = <<>> THEN <<>>
    ELSE LET p == Strip(Head(pieces), WsChars)
         IN  (IF Len(p) > 0 THEN <<p>> ELSE <<>>)
                 \o StripNonEmpty(Tail(pieces))

\* line 240
Sentences(summary_text) == StripNonEmpty(ReSplit(summary_text))

GENERICO == <<"generico">>
PLACEHOLDER_DESC == <<"caratteristica estratta dal riassunto">>

\* x or default, on lists
OrElse(x, default) == IF x = <<>> THEN default ELSE x

\* line 238
NamesCount(tags) == Min(MAX_NAMES, Len(tags))

\* line 239
ChosenNames(tags) == OrElse(Take(tags, NamesCount(tags)), <<GENERICO>>)

\* line 241
Snippets(summary_text, tags) ==
    OrElse(Take(Sentences(summary_text), NamesCount(tags)),
           <<PLACEHOLDER_DESC>>)

\* line 243: pages or [None] * N, each element an Optional page
PageList(tags, pages) ==
    IF pages # <<>> THEN [i \in 1..Len(pages) |-> Some(pages[i])]
    ELSE [i \in 1..NamesCount(tags) |-> None]

\* line 254, i counted from 1
DescAt(snippets, i) ==
    Take(IF i <= Len(snippets) THEN snippets[i] ELSE snippets[Len(snippets)],
         DESC_MAX)

\* line 255, i counted from 1
PageAtOffByOne(page_list, i) ==
    IF i < Len(page_list) THEN page_list[i] ELSE None
PageAt(page_list, i) == IF i <= Len(page_list) THEN page_list[i] ELSE None

Stmt(kind, nome, desc, page) ==
    [kind |-> kind, nome |-> nome, descrizione |-> desc, pagina |-> page]

\* lines 245-252
CreateTable == Stmt("CREATE TABLE IF NOT EXISTS", <<>>, <<>>, None)

\* lines 231-260: the statements, one element per statement of the text
generate_sql_from_summary(summary_text, tags, pages) ==
    LET chosen == ChosenNames(tags)
        snippets == Snippets(summary_text, tags)
        page_list == PageList(tags, pages)
    IN  <<CreateTable>> \o
        [i \in 1..Len(chosen) |->
            Stmt("INSERT", chosen[i], DescAt(snippets, i),
                 PageAt(page_list, i))]

SummaryChars == {"A", ".", " "}
Summaries == UNION {[1..n -> SummaryChars] : n \in 0..MaxSummaryLen}

\* tag number i, a word of i letters
TagWord(i) == [j \in 1..i |-> "t"]
TagLists == {[i \in 1..n |-> TagWord(i)] : n \in 0..MaxTags}
SqlPageLists == {[i \in 1..n |-> i] : n \in 0..MaxSqlPages}

InitSql ==
    /\ pc = "_generate_sql_from_summary"
    /\ exc = None
    /\ sql_summary \in Summaries
    /\ sql_tags \in TagLists
    /\ sql_pages \in SqlPageLists
    /\ sql_ret = <<>>
    /\ CompIdle
    /\ OutIdle
    /\ JsonIdle
    /\ PipeIdle

GenerateSqlCall ==
    /\ pc = "_generate_sql_from_summary"
    /\ sql_ret' = generate_sql_from_summary(sql_summary, sql_tags, sql_pages)
    /\ pc' = "returned"
    /\ UNCHANGED <<exc, sql_summary, sql_tags, sql_pages>>
    /\ UNCHANGED <<compVars, outVars, jsonVars, pipeVars>>

NextSql == GenerateSqlCall

SpecSql == InitSql /\ [][NextSql]_vars

Max(a, b) == IF a > b THEN a ELSE b

\* the count of INSERT statements C7 states
C7_Count == Max(1, Min(MAX_NAMES, Len(sql_tags)))

\* what C7 says of the statements but for the description
C7_Shape ==
    /\ Len(sql_ret) = 1 + C7_Count
    /\ sql_ret[1] = CreateTable
    /\ \A i \in 1..C7_Count :
          LET st == sql_ret[i + 1]
          IN  /\ st.kind = "INSERT"
              /\ st.nome = IF sql_tags = <<>> THEN GENERICO ELSE sql_tags[i]
              /\ st.pagina = IF i <= Len(sql_pages) THEN Some(sql_pages[i])
                              ELSE None

\* C7 as stated: one CREATE TABLE, then max(1, min(10, len(tags))) INSERTs,
\* the i-th pairing the i-th tag ('generico' when there is no tag) with the
\* i-th sentence fragment of the summary and the i-th page, NULL when there
\* are fewer pages than names.  Stated for the calls that have a tag and a
\* summary with a sentence fragment in it.
C7_IthSentence ==
    (pc = "returned" /\ sql_tags # <<>> /\ Sentences(sql_summary) # <<>>) =>
        /\ C7_Shape
        /\ \A i \in 1..C7_Count :
              /\ i <= Len(Sentences(sql_summary))
              /\ sql_ret[i + 1].descrizione = Sentences(sql_summary)[i]

\* C7 amended: as stated, but the description of the i-th INSERT is, cut to
\* 400 characters, the i-th of the first min(10, len(tags)) sentence
\* fragments when there are that many, else the last of those fragments,
\* and the placeholder description when there is none of them (so always
\* when tags is empty).
C7_SqlPairs ==
    pc = "returned" =>
        /\ C7_Shape
        /\ \A i \in 1..C7_Count :
              LET picked == Take(Sentences(sql_summary),
                                 Min(MAX_NAMES, Len(sql_tags)))
                  want == IF picked = <<>> THEN PLACEHOLDER_DESC
                          ELSE IF i <= Len(picked) THEN picked[i]
                          ELSE picked[Len(picked)]
              IN  sql_ret[i + 1].descrizione = Take(want, DESC_MAX)

C7_Witness ==
    /\ pc = "returned"
    /\ sql_summary = <<"A", ".", " ", "A">>
    /\ Len(sql_tags) = 11
    /\ sql_pages = <<1, 2>>
    /\ Len(sql_ret) = 11
    /\ sql_ret[2] = Stmt("INSERT", TagWord(1), <<"A">>, Some(1))
    /\ sql_ret[4] = Stmt("INSERT", TagWord(3), <<"A">>, None)

\* ------------------------------------------------------------ VectorIndex
\* self.model.encode(texts, normalize_embeddings=True): one row per text.
\* The embedding model is a function of the text; Embed(t) names the unit
\* vector it gives for t.
Embed(t) == [of |-> t]
Encode(texts) == [i \in 1..Len(texts) |-> Embed(texts[i])]

\* lines 15-19: encode([]) is an array of shape (0,), so emb.shape[1]
\* raises IndexError while self.index is None, and index.add(emb) rejects
\* the one-dimensional array afterwards.
AddTextsRaises(index, texts) == texts = <<>>

\* lines 17-19: self.index after add_texts(texts, ...) returned
AddTextsIndex(index, texts) ==
    Some((IF index = None THEN <<>> ELSE index[1]) \o Encode(texts))

\* line 20: self.meta.extend(metadatas)
AddTextsMeta(meta, metadatas) == meta \o metadatas

\* ------------------------------ analyze_single_page, _process_output_images
\* entry.get(k, default)
Get(d, k, default) == IF k \in DOMAIN d THEN d[k] ELSE default

\* d.setdefault(k, v) as the mapping it leaves
SetDefault(d, k, v) == IF k \in DOMAIN d THEN d ELSE DictPut(d, k, v)

RECURSIVE Pow2(_)
Pow2(n) == IF n = 0 THEN 1 ELSE 2 * Pow2(n - 1)

\* line 128: wait = RETRY_BASE_DELAY * (2 ** (attempt - 1))
Wait(a) == RETRY_BASE_DELAY * Pow2(a - 1)

\* line 123: the guard of `for attempt in range(1, RETRIES + 1)`
HasAttempt(a) == a <= RETRIES

\* lines 303-304: the handler logs the error and the loop goes on
UnitErrorPcAbort == "raised"
UnitErrorPc == "unit"

\* what pytesseract gives for a unit: it raises (None) or returns a text
OcrOutcomes == {None, Some(<<>>), Some(<<"x">>)}

\* what ollama.chat gives: it raises (None) or returns a text
Responses ==
    {FencedAnswer(ObjPlain),
     <<T_PROSE, T_OBJ(ObjWithPages), T_PROSE>>,
     <<T_PROSE>>}
ChatOutcomes == {None} \cup {Some(r) : r \in Responses}

PDF_NAME == "doc.pdf"

RECURSIVE Join(_, _)
\* sep.join(parts)
Join(parts, sep) ==
    IF parts = <<>> THEN <<>>
    ELSE IF Len(parts) = 1 THEN parts[1]
    ELSE parts[1] \o <<sep>> \o Join(Tail(parts), sep)

\* lines 361-369
embedding_text_from_entry(entry) ==
    LET p1 == IF Get(entry, "riassunto", <<>>) # <<>>
              THEN <<entry["riassunto"]>> ELSE <<>>
        p2 == IF Get(entry, "tags", <<>>) # <<>>
              THEN <<Join(entry["tags"], " ")>> ELSE <<>>
        p3 == IF Get(entry, "ocr_text", <<>>) # <<>>
              THEN <<Take(entry["ocr_text"], OCR_CAP)>> ELSE <<>>
    IN  Strip(Join(p1 \o p2 \o p3, "\n"), WsChars)

\* lines 314-320
MetaOf(fname, entry) ==
    [file |-> fname,
     pages |-> Get(entry, "pages", <<>>),
     tags |-> Get(entry, "tags", <<>>),
     images |-> Get(entry, "images", <<>>),
     pdf |-> PDF_NAME]

RECURSIVE CollectTexts(_, _)
\* lines 307-313: texts, over the entries in insertion order
CollectTexts(keys, out) ==
    IF keys = <<>> THEN <<>>
    ELSE LET t == embedding_text_from_entry(out[Head(keys)])
         IN  (IF t = <<>> THEN <<>> ELSE <<t>>)
                 \o CollectTexts(Tail(keys), out)

RECURSIVE CollectMetas(_, _)
\* lines 307-320: metas, over the entries in insertion order
CollectMetas(keys, out) ==
    IF keys = <<>> THEN <<>>
    ELSE LET t == embedding_text_from_entry(out[Head(keys)])
         IN  (IF t = <<>> THEN <<>>
              ELSE <<MetaOf(Head(keys), out[Head(keys)])>>)
                 \o CollectMetas(Tail(keys), out)

\* lines 348-351 for one extracted image of page p: its path is appended to
\* every entry covering p.  The path pagina<p>_img1 is named by p.
AppendImage(out, p) ==
    [k \in DOMAIN out |->
        IF p \in Range(Get(out[k], "pages", <<>>))
        THEN DictPut(out[k], "images",
                     Append(Get(out[k], "images", <<>>), p))
        ELSE out[k]]

RECURSIVE AppendImages(_, _, _)
\* lines 331-355 for a PDF whose pages in P hold one embedded image each,
\* pages taken in order from p on
AppendImages(out, P, p) ==
    IF \A q \in P : q < p THEN out
    ELSE AppendImages(IF p \in P THEN AppendImage(out, p) ELSE out, P, p + 1)

SinglePageImages == [width |-> 1, height |-> 1]

InitPipeline ==
    /\ pc = "analyze_single_page"
    /\ exc = None
    /\ images \in {[i \in 1..n |-> SinglePageImages] : n \in 0..MaxUnits}
    /\ max_height = MAX_HEIGHT
    /\ max_width = 0
    /\ y = 0
    /\ idx = 0
    /\ pages_in_block = <<>>
    /\ page_idx = 0
    /\ merged = <<>>
    /\ files \in {EmptyDict, [k \in {1} |-> <<>>]}
    /\ output_keys = <<>>
    /\ output = EmptyDict
    /\ JsonIdle
    /\ SqlIdle
    /\ PipeIdle

\* lines 216-222 and 282: clear the directory, write one file and record one
\* entry per page, then list the files in sorted order
AnalyzeSinglePage ==
    /\ pc = "analyze_single_page"
    /\ LET n == Len(images)
       IN  /\ files' = [i \in 1..n |-> Paste(NewCanvas, i, 0)]
           /\ output_keys' = [i \in 1..n |-> i]
           /\ output' = [i \in 1..n |-> [pages |-> <<i>>, images |-> <<>>]]
           /\ jpgs' = [i \in 1..n |-> i]
           /\ status' = [i \in 1..n |-> "CREATED"]
    /\ unit_i' = 1
    /\ pc' = "unit"
    /\ UNCHANGED <<exc, compVars, callVars, vecVars>>
    /\ UNCHANGED <<jsonVars, sqlVars>>

\* lines 284-286, 263-272: the next unit, up to the model call.  An OCR
\* error is caught at line 303.
UnitOcr ==
    /\ pc = "unit"
    /\ unit_i <= Len(jpgs)
    /\ \E r \in OcrOutcomes :
          LET u == jpgs[unit_i]
          IN  IF r = None
              THEN /\ status' = DictPut(status, u, "FAILED")
                   /\ unit_i' = unit_i + 1
                   /\ pc' = UnitErrorPc
                   /\ UNCHANGED <<output_keys, output, callVars>>
              ELSE /\ output_keys' = KeysPut(output_keys, u)
                   /\ output' =
                         DictPut(output, u,
                                 SetDefault(Get(output, u, EmptyDict),
                                            "ocr_text", r[1]))
                   /\ status' = DictPut(status, u, "OCR_DONE")
                   /\ attempt' = 1
                   /\ chat_calls' = 0
                   /\ sleeps' = <<>>
                   /\ call_result' = "running"
                   /\ pc' = "ollama"
                   /\ UNCHANGED <<unit_i, content>>
    /\ UNCHANGED <<exc, compVars, files, jpgs, vecVars>>
    /\ UNCHANGED <<jsonVars, sqlVars>>

\* lines 123-130: one attempt of call_ollama_with_retry
OllamaAttempt ==
    /\ pc = "ollama"
    /\ HasAttempt(attempt)
    /\ chat_calls' = chat_calls + 1
    /\ \E r \in ChatOutcomes :
          IF r # None
          THEN /\ content' = r[1]
               /\ call_result' = "returned"
               /\ status' = DictPut(status, jpgs[unit_i], "MODEL_CALLED")
               /\ pc' = "parse"
               /\ UNCHANGED <<attempt, sleeps>>
          ELSE /\ sleeps' = Append(sleeps, Wait(attempt))
               /\ attempt' = attempt + 1
               /\ UNCHANGED <<content, call_result, status, pc>>
    /\ UNCHANGED <<exc, compVars, outVars, jpgs, unit_i, vecVars>>
    /\ UNCHANGED <<jsonVars, sqlVars>>

\* line 131, caught at line 303
OllamaExhausted ==
    /\ pc = "ollama"
    /\ ~HasAttempt(attempt)
    /\ call_result' = "RuntimeError"
    /\ status' = DictPut(status, jpgs[unit_i], "FAILED")
    /\ unit_i' = unit_i + 1
    /\ pc' = UnitErrorPc
    /\ UNCHANGED <<exc, compVars, outVars, jpgs, attempt, chat_calls, sleeps,
                   content, vecVars>>
    /\ UNCHANGED <<jsonVars, sqlVars>>

\* lines 278, 287-301: parse the answer, derive the SQL, store the record
UnitParse ==
    /\ pc = "parse"
    /\ LET u == jpgs[unit_i]
           entry == Get(output, u, EmptyDict)
           resp == safe_json_loads(content,
                                   [pages |-> Get(entry, "pages", <<>>)])
       IN  IF resp = None \/ resp = Some(EmptyDict)
           THEN /\ status' = DictPut(status, u, "FAILED")
                /\ UNCHANGED output
           ELSE LET summary == Strip(Get(resp[1], "riassunto", <<>>), WsChars)
                    tags == Get(resp[1], "tags", <<>>)
                    pages == Get(resp[1], "pages", <<>>)
                    sql == generate_sql_from_summary(summary, tags, pages)
                IN  /\ output' =
                          DictPut(output, u,
                                  DictUnion(entry,
                                            [riassunto |-> summary,
                                             tags |-> tags,
                                             sql |-> sql]))
                    /\ status' = DictPut(status, u, "SQL_GENERATED")
    /\ unit_i' = unit_i + 1
    /\ pc' = "unit"
    /\ UNCHANGED <<exc, compVars, files, output_keys, jpgs, callVars, vecVars>>
    /\ UNCHANGED <<jsonVars, sqlVars>>

\* line 305: _extract_images_from_pdf, for a PDF that cannot be opened
\* (no page yields an image) or whose pages in P hold an embedded image
ExtractImages ==
    /\ pc = "unit"
    /\ unit_i > Len(jpgs)
    /\ \E P \in SUBSET (1..Len(images)) : output' = AppendImages(output, P, 1)
    /\ pc' = "index"
    /\ UNCHANGED <<exc, compVars, files, output_keys, pipeVars>>
    /\ UNCHANGED <<jsonVars, sqlVars>>

\* lines 306-322: collect the texts and add them to a new VectorIndex
IndexTexts ==
    /\ pc = "index"
    /\ LET texts == CollectTexts(output_keys, output)
           metas == CollectMetas(output_keys, output)
       IN  IF AddTextsRaises(None, texts)
           THEN /\ pc' = "raised"
                /\ exc' = Some("IndexError")
                /\ UNCHANGED <<vec_index, vec_meta>>
           ELSE /\ vec_index' = AddTextsIndex(None, texts)
                /\ vec_meta' = AddTextsMeta(<<>>, metas)
                /\ pc' = "save"
                /\ UNCHANGED exc
    /\ UNCHANGED <<compVars, outVars, unitVars, callVars, disk_index,
                   disk_meta, save_count>>
    /\ UNCHANGED <<jsonVars, sqlVars>>

\* lines 323-324 with embedding.py lines 34-37
SaveIndex ==
    /\ pc = "save"
    /\ disk_index' = vec_index
    /\ disk_meta' = Some(vec_meta)
    /\ save_count' = save_count + 1
    /\ pc' = "returned"
    /\ UNCHANGED <<exc, compVars, outVars, unitVars, callVars, vec_index,
                   vec_meta>>
    /\ UNCHANGED <<jsonVars, sqlVars>>

NextPipeline ==
    \/ AnalyzeSinglePage
    \/ UnitOcr
    \/ OllamaAttempt
    \/ OllamaExhausted
    \/ UnitParse
    \/ ExtractImages
    \/ IndexTexts
    \/ SaveIndex

SpecPipeline == InitPipeline /\ [][NextPipeline]_vars

\* -------------------------------------------------------- pipeline claims
TwoWaits == <<RETRY_BASE_DELAY, 2 * RETRY_BASE_DELAY>>

\* C3: a call_ollama_with_retry whose every attempt fails makes exactly
\* RETRIES calls and raises RuntimeError, having slept 1.5 s and then 3.0 s
\* and no more.
C3_RetryBackoff ==
    call_result = "RuntimeError" =>
        /\ chat_calls = RETRIES
        /\ sleeps = TwoWaits

LoopDone == pc \in {"index", "save", "returned", "raised"}

\* C4: the step in which a unit fails goes on to the next unit and leaves
\* every other unit's record as it was, and the loop is left only when
\* every unit has been attempted.
C4_FailureIsolated ==
    /\ [](LoopDone => \A u \in DOMAIN status : status[u] # "CREATED")
    /\ [][\A u \in DOMAIN status \cap DOMAIN status' :
            (status[u] # "FAILED" /\ status'[u] = "FAILED") =>
                /\ pc' = "unit"
                /\ unit_i' = unit_i + 1
                /\ jpgs[unit_i] = u
                /\ output_keys' = output_keys
                /\ \A v \in DOMAIN output \ {u} : output'[v] = output[v]]_vars

C4_Witness ==
    /\ pc = "returned"
    /\ \E u, v \in DOMAIN status :
          /\ u < v
          /\ status[u] = "FAILED"
          /\ status[v] = "SQL_GENERATED"
          /\ "sql" \in DOMAIN output[v]

\* C8: a unit that has failed has no entry in the Vector Index.
C8_FailedNeverIndexed ==
    \A u \in DOMAIN status :
        status[u] = "FAILED" =>
            \A i \in 1..Len(vec_meta) : vec_meta[i].file # u

\* C9: every run that has ended has saved the Vector Index exactly once, and
\* no save happens before the last unit is finished.  Stated for the runs
\* that have a unit to process.
C9_SavedOnce ==
    /\ (jpgs # <<>> /\ pc \in {"returned", "raised"}) => save_count = 1
    /\ save_count > 0 => (unit_i > Len(jpgs) /\ LoopDone)

\* -------------------------------------------- VectorIndex.add_texts alone
BatchTexts == UNION {[1..n -> {<<"a">>, <<"b">>}] : n \in 0..MaxBatch}

\* the metadata a caller pairs with text t
MetaFor(t) == [text |-> t]

\* a metadatas list of nm elements for texts: element i describes texts[i];
\* the elements beyond the texts describe a text that was not passed
BatchMetas(texts, nm) ==
    [i \in 1..nm |->
        IF i <= Len(texts) THEN MetaFor(texts[i]) ELSE MetaFor(<<"z">>)]

Rows(index) == IF index = None THEN <<>> ELSE index[1]

InitIndex ==
    /\ pc = "VectorIndex"
    /\ exc = None
    /\ CompIdle
    /\ OutIdle
    /\ JsonIdle
    /\ SqlIdle
    /\ PipeIdle

\* embedding.py lines 14-20, for lists of equal or of different lengths
IndexAddTexts ==
    /\ pc = "VectorIndex"
    /\ \E texts \in BatchTexts, nm \in 0..MaxBatch :
          /\ Len(Rows(vec_index)) + Len(texts) <= MaxStore
          /\ Len(vec_meta) + nm <= MaxStore
          /\ IF AddTextsRaises(vec_index, texts)
             THEN /\ exc' = Some("IndexError")
                  /\ UNCHANGED <<vec_index, vec_meta>>
             ELSE /\ exc' = None
                  /\ vec_index' = AddTextsIndex(vec_index, texts)
                  /\ vec_meta' = AddTextsMeta(vec_meta, BatchMetas(texts, nm))
    /\ UNCHANGED <<pc, compVars, outVars, jsonVars, sqlVars, unitVars,
                   callVars, disk_index, disk_meta, save_count>>

NextIndex == IndexAddTexts

SpecIndex == InitIndex /\ [][NextIndex]_vars

\* C6: after add_texts calls that returned, the store holds as many rows
\* as self.meta has elements, and row i is the vector of the text that
\* metadata i describes.
C6_Parallel ==
    /\ Len(Rows(vec_index)) = Len(vec_meta)
    /\ \A i \in 1..Len(vec_meta) :
          /\ i <= Len(Rows(vec_index))
          /\ Rows(vec_index)[i] = Embed(vec_meta[i].text)

\* ------------------------------------- VectorIndex.save, VectorIndex.load
\* The two companion files are the file system's: each is absent, or holds
\* what some save wrote.  disk_meta = None also stands for a metadata file
\* that cannot be read or parsed: open and json.load raise at the same
\* place, lines 41-42.  A written vector file holds at least one row, since
\* add_texts never returns from an empty batch.
DiskIndexFiles ==
    {None} \cup {Some(Encode(t)) : t \in BatchTexts \ {<<>>}}
DiskMetaFiles ==
    {None} \cup {Some(BatchMetas(t, Len(t))) : t \in BatchTexts}

InitStore ==
    /\ pc = "VectorIndex"
    /\ exc = None
    /\ vec_index = None
    /\ vec_meta = <<>>
    /\ disk_index \in DiskIndexFiles
    /\ disk_meta \in DiskMetaFiles
    /\ save_count = 0
    /\ CompIdle
    /\ OutIdle
    /\ JsonIdle
    /\ SqlIdle
    /\ UnitIdle
    /\ CallIdle

\* embedding.py lines 14-20, called with one metadata per text
StoreAddTexts ==
    /\ \E texts \in BatchTexts :
          /\ Len(Rows(vec_index)) + Len(texts) <= MaxStore
          /\ Len(vec_meta) + Len(texts) <= MaxStore
          /\ IF AddTextsRaises(vec_index, texts)
             THEN /\ exc' = Some("IndexError")
                  /\ UNCHANGED <<vec_index, vec_meta>>
             ELSE /\ exc' = None
                  /\ vec_index' = AddTextsIndex(vec_index, texts)
                  /\ vec_meta' =
                        AddTextsMeta(vec_meta, BatchMetas(texts, Len(texts)))
    /\ pc' = "add_texts"
    /\ UNCHANGED <<compVars, outVars, jsonVars, sqlVars, unitVars, callVars,
                   disk_index, disk_meta, save_count>>

\* embedding.py lines 34-37: faiss.write_index rejects self.index = None
\* before anything is written
StoreSave ==
    /\ save_count < MaxSaves
    /\ IF vec_index = None
       THEN /\ exc' = Some("TypeError")
            /\ UNCHANGED <<disk_index, disk_meta, save_count>>
       ELSE /\ exc' = None
            /\ disk_index' = vec_index
            /\ disk_meta' = Some(vec_meta)
            /\ save_count' = save_count + 1
    /\ pc' = "save"
    /\ UNCHANGED <<compVars, outVars, jsonVars, sqlVars, unitVars, callVars,
                   vec_index, vec_meta>>

\* embedding.py lines 39-42: self.index is assigned before the metadata
\* file is opened, and nothing compares the two files
StoreLoad ==
    /\ IF disk_index = None
       THEN /\ exc' = Some("RuntimeError")
            /\ UNCHANGED <<vec_index, vec_meta>>
       ELSE /\ vec_index' = disk_index
            /\ IF disk_meta = None
               THEN /\ exc' = Some("FileNotFoundError")
                    /\ UNCHANGED vec_meta
               ELSE /\ exc' = None
                    /\ vec_meta' = disk_meta[1]
    /\ pc' = "load"
    /\ UNCHANGED <<compVars, outVars, jsonVars, sqlVars, unitVars, callVars,
                   disk_index, disk_meta, save_count>>

NextStore == StoreAddTexts \/ StoreSave \/ StoreLoad

SpecStore == InitStore /\ [][NextStore]_vars

\* the two files are a matching pair: both present, as many rows as
\* metadata, row i the vector of the text metadata i describes
MatchingPair(fidx, fmeta) ==
    /\ fidx # None
    /\ fmeta # None
    /\ Len(fidx[1]) = Len(fmeta[1])
    /\ \A i \in 1..Len(fmeta[1]) : fidx[1][i] = Embed(fmeta[1][i].text)

\* C11: a load either takes both self.index and self.meta from a matching
\* pair of files, or raises and leaves both as they were.
C11_LoadAllOrNothing ==
    [][pc' = "load" =>
          \/ /\ exc' = None
             /\ MatchingPair(disk_index, disk_meta)
             /\ vec_index' = disk_index
             /\ vec_meta' = disk_meta[1]
          \/ /\ exc' # None
             /\ vec_index' = vec_index
             /\ vec_meta' = vec_meta]_vars

====
